---------------------------- MODULE Spec2Model ----------------------------
(***************************************************************************)
(* Model of the cron expression parser (package cron, parser.go): the      *)
(* single-word bit engine getBits, the range and field parsers getRange    *)
(* and getField, the schedule compiler NewParser / Parser.Parse /          *)
(* expandFields, the descriptor table parseDescriptor, and the multi-word  *)
(* bit engine getMultiBits / mhas / mall that parser_test.go exercises.    *)
(*                                                                         *)
(* Conventions.                                                            *)
(*  - A Go string is a sequence of one-character strings.                  *)
(*  - A uint64 bit set is the set of its set bit positions, a subset of    *)
(*    0..63; |, & and ^ are union, intersection and complement in 0..63,   *)
(*    and << drops every bit shifted past position 63.                     *)
(*  - A uint is written by its representative modulo 2^64 closest to 0:    *)
(*    a small value v as v, and the value 2^64 - d as -d.  Addition        *)
(*    modulo 2^64 is then integer addition, and a negative representative  *)
(*    is larger than every non-negative one.                               *)
(*  - A panic is a result record with ok = FALSE; Parse recovers it.       *)
(***************************************************************************)
EXTENDS Integers, Sequences, FiniteSets, TLC

VARIABLES
    pc,         \* position of the call under analysis
    min, max, step, i, bits,          \* getBits / getMultiBits frame
    tok, expr, r, res,                \* getRange / getField: input and result
    options, parser, spec, fields, schedule, err,   \* NewParser / Parse
    words                             \* getMultiBits result

vars == <<pc, min, max, step, i, bits, tok, expr, r, res,
          options, parser, spec, fields, schedule, err, words>>

\* Value of a variable that the call under analysis does not use.
Idle == "idle"

-----------------------------------------------------------------------------
(* Bounds of the model *)

\* Largest ordinary step handed to getBits (steps 1..MaxStep, and 64).
MaxStep == 3
\* Steps 2^64 - 1 .. 2^64 - MaxWrap, for which the loop counter wraps.
MaxWrap == 2

-----------------------------------------------------------------------------
(* uint64 words as bit sets *)

WordBits == 0 .. 63

\* math.MaxUint64
MaxUint64 == WordBits

\* x << k on uint64: Go yields 0 once k reaches the width.
Shl(x, k) == { b + k : b \in x } \cap WordBits

\* ^x on uint64
Not(x) == WordBits \ x

\* a <= b on uint, on representatives modulo 2^64
ULe(a, b) ==
    IF a >= 0 /\ b >= 0 THEN a <= b
    ELSE IF a >= 0 THEN TRUE
    ELSE IF b >= 0 THEN FALSE
    ELSE a <= b

\* a < b on uint
ULt(a, b) == ULe(a, b) /\ a # b

-----------------------------------------------------------------------------
(* getBits *)

\* Mutant: the mask drops bit max (shift by max instead of max + 1).
getBitsShiftOffByOne(lo, hi) ==
    Not(Shl(MaxUint64, hi)) \cap Shl(MaxUint64, lo)

\* ^(math.MaxUint64 << (max + 1)) & (math.MaxUint64 << min)
getBitsShift(lo, hi) ==
    Not(Shl(MaxUint64, hi + 1)) \cap Shl(MaxUint64, lo)

\* bits |= 1 << i
getBitsSet(acc, k) == acc \cup Shl({0}, k)

\* i += step
getBitsAdvance(k, st) == k + st

RECURSIVE getBitsLoop(_, _, _, _)
\* for i := min; i <= max; i += step { bits |= 1 << i }
getBitsLoop(k, hi, st, acc) ==
    IF ULe(k, hi)
    THEN getBitsLoop(getBitsAdvance(k, st), hi, st, getBitsSet(acc, k))
    ELSE acc

\* getBits(min, max, step)
getBits(lo, hi, st) ==
    IF st = 1 THEN getBitsShift(lo, hi) ELSE getBitsLoop(lo, hi, st, {})

(* getBits, one loop iteration per step *)

\* The steps handed to getBits: small ones, one as wide as the word, and
\* the largest uint values (written -d for 2^64 - d).
Steps == (1 .. MaxStep) \cup {64} \cup { -d : d \in 1 .. MaxWrap }

InitBits ==
    /\ pc = "getBits"
    /\ min \in WordBits /\ max \in WordBits /\ min <= max
    /\ step \in Steps
    /\ i = 0 /\ bits = {}
    /\ tok = Idle /\ expr = Idle /\ r = Idle /\ res = Idle
    /\ options = Idle /\ parser = Idle /\ spec = Idle /\ fields = Idle
    /\ schedule = Idle /\ err = Idle /\ words = Idle

unchangedBits ==
    UNCHANGED <<min, max, step, tok, expr, r, res, options, parser, spec,
                fields, schedule, err, words>>

\* if step == 1 { return ^(MaxUint64 << (max+1)) & (MaxUint64 << min) }
getBitsStepOne ==
    /\ pc = "getBits" /\ step = 1
    /\ bits' = getBitsShift(min, max)
    /\ pc' = "done"
    /\ UNCHANGED i
    /\ unchangedBits

\* for i := min; ...
getBitsLoopInit ==
    /\ pc = "getBits" /\ step # 1
    /\ i' = min
    /\ pc' = "loop"
    /\ UNCHANGED bits
    /\ unchangedBits

\* ...; i <= max; i += step { bits |= 1 << i }
getBitsLoopBody ==
    /\ pc = "loop" /\ ULe(i, max)
    /\ bits' = getBitsSet(bits, i)
    /\ i' = getBitsAdvance(i, step)
    /\ UNCHANGED pc
    /\ unchangedBits

\* return bits
getBitsReturn ==
    /\ pc = "loop" /\ ~ULe(i, max)
    /\ pc' = "done"
    /\ UNCHANGED <<i, bits>>
    /\ unchangedBits

NextBits == getBitsStepOne \/ getBitsLoopInit \/ getBitsLoopBody \/ getBitsReturn

SpecBits == InitBits /\ [][NextBits]_vars

\* The loop is sequential code: it keeps running until it returns.
SpecBitsFair == SpecBits /\ WF_vars(NextBits)

\* {min, min+step, min+2*step, ...} up to max, over the mathematical
\* integers: a step of 2^64 - d (written -d) is beyond every max.
Progression(lo, hi, st) ==
    IF st < 0 THEN {lo}
    ELSE { v \in lo .. hi : (v - lo) % st = 0 }

\* min + step does not exceed the largest uint, 2^64 - 1 (written -1).
NoWrap(lo, st) == st >= 0 \/ lo + st < 0

-----------------------------------------------------------------------------
(* Go strings and the library functions the parser calls *)

RECURSIVE SplitFrom(_, _, _, _)
\* The pieces of s from position k on, cur being the piece under way.
SplitFrom(s, sep, k, cur) ==
    IF k > Len(s) THEN <<cur>>
    ELSE IF s[k] = sep THEN <<cur>> \o SplitFrom(s, sep, k + 1, <<>>)
    ELSE SplitFrom(s, sep, k + 1, Append(cur, s[k]))

\* strings.Split(s, sep) for a one-character sep: every piece, empty ones
\* included; at least one piece.
Split(s, sep) == SplitFrom(s, sep, 1, <<>>)

\* unicode.IsSpace: the white space characters the inputs use
isSpace == {" ", "\t", "\n"}

\* isComma: the characters it answers true for
isComma == {","}

RECURSIVE FieldsFrom(_, _, _, _)
\* The maximal runs of characters of s outside seps, from position k on, cur
\* being the run under way.
FieldsFrom(s, seps, k, cur) ==
    IF k > Len(s) THEN (IF cur = <<>> THEN <<>> ELSE <<cur>>)
    ELSE IF s[k] \in seps
         THEN (IF cur = <<>> THEN <<>> ELSE <<cur>>) \o FieldsFrom(s, seps, k + 1, <<>>)
         ELSE FieldsFrom(s, seps, k + 1, Append(cur, s[k]))

\* strings.FieldsFunc(s, f), f given by the characters it answers true for
FieldsFunc(s, seps) == FieldsFrom(s, seps, 1, <<>>)

\* strings.Fields(s)
Fields(s) == FieldsFunc(s, isSpace)

\* strings.HasPrefix(s, prefix)
HasPrefix(s, prefix) ==
    Len(s) >= Len(prefix) /\ SubSeq(s, 1, Len(prefix)) = prefix

UpperLetters == <<"A", "B", "C", "D", "E", "F", "G", "H", "I", "J", "K", "L", "M",
                  "N", "O", "P", "Q", "R", "S", "T", "U", "V", "W", "X", "Y", "Z">>
LowerLetters == <<"a", "b", "c", "d", "e", "f", "g", "h", "i", "j", "k", "l", "m",
                  "n", "o", "p", "q", "r", "s", "t", "u", "v", "w", "x", "y", "z">>

\* unicode.ToLower on one ASCII character
lowerChar(c) ==
    IF \E k \in 1 .. 26 : UpperLetters[k] = c
    THEN LowerLetters[CHOOSE k \in 1 .. 26 : UpperLetters[k] = c]
    ELSE c

\* strings.ToLower(s)
ToLower(s) == [k \in 1 .. Len(s) |-> lowerChar(s[k])]

Digits == <<"0", "1", "2", "3", "4", "5", "6", "7", "8", "9">>

isDigit(c) == \E k \in 1 .. 10 : Digits[k] = c

digitVal(c) == (CHOOSE k \in 1 .. 10 : Digits[k] = c) - 1

RECURSIVE decimal(_, _)
\* The value of the first k characters of a string of digits.
decimal(s, k) == IF k = 0 THEN 0 ELSE 10 * decimal(s, k - 1) + digitVal(s[k])

\* strconv.Atoi(s): an optional sign and at least one digit, else an error.
\* (Values beyond the int range are an error too; no input here is that long.)
Atoi(s) ==
    LET signed == Len(s) > 0 /\ s[1] \in {"+", "-"}
        body   == IF signed THEN SubSeq(s, 2, Len(s)) ELSE s
    IN  IF body = <<>> \/ \E k \in 1 .. Len(body) : ~isDigit(body[k])
        THEN [ok |-> FALSE, err |-> "Atoi"]
        ELSE [ok |-> TRUE,
              v  |-> IF signed /\ s[1] = "-" THEN 0 - decimal(body, Len(body))
                     ELSE decimal(body, Len(body))]

\* log.Panicf(...): the panic, named by its message
Panic(msg) == [ok |-> FALSE, err |-> msg]

\* A result without panic
Ok(v) == [ok |-> TRUE, v |-> v]

-----------------------------------------------------------------------------
(* Field descriptors (bounds) and the marker bits *)

\* starBit: the wildcard marker, a high-order bit no value uses
starBit == {63}

\* approxBit: the approximate-day-of-month marker
approxBit == {62}

\* names == nil
nil == <<>>

\* A name table: the k-th name stands for first + k - 1.
NameTable(names, first) ==
    [n \in { names[k] : k \in 1 .. Len(names) } |->
        first + (CHOOSE k \in 1 .. Len(names) : names[k] = n) - 1]

seconds == [min |-> 0, max |-> 59, names |-> nil, features |-> {}]

minutes == [min |-> 0, max |-> 59, names |-> nil, features |-> {}]

hours == [min |-> 0, max |-> 23, names |-> nil, features |-> {}]

dom == [min |-> 1, max |-> 31, names |-> nil, features |-> {"approx"}]

months ==
    [min |-> 1, max |-> 12, features |-> {},
     names |-> NameTable(<< <<"j","a","n">>, <<"f","e","b">>, <<"m","a","r">>,
                            <<"a","p","r">>, <<"m","a","y">>, <<"j","u","n">>,
                            <<"j","u","l">>, <<"a","u","g">>, <<"s","e","p">>,
                            <<"o","c","t">>, <<"n","o","v">>, <<"d","e","c">> >>, 1)]

dow ==
    [min |-> 0, max |-> 6, features |-> {},
     names |-> NameTable(<< <<"s","u","n">>, <<"m","o","n">>, <<"t","u","e">>,
                            <<"w","e","d">>, <<"t","h","u">>, <<"f","r","i">>,
                            <<"s","a","t">> >>, 0)]

weeksOfYear == [min |-> 1, max |-> 53, names |-> nil, features |-> {}]

\* bounds{0, 7, nil}, the field of TestRange
testBounds == [min |-> 0, max |-> 7, names |-> nil, features |-> {}]

-----------------------------------------------------------------------------
(* getRange and getField *)

\* mustParseInt(expr)
mustParseInt(e) ==
    LET num == Atoi(e)
    IN  IF ~num.ok THEN Panic("Failed to parse int")
        ELSE IF num.v < 0 THEN Panic("Negative number not allowed")
        ELSE Ok(num.v)

\* parseIntOrName(expr, names)
parseIntOrName(e, names) ==
    IF names # nil /\ ToLower(e) \in DOMAIN names
    THEN Ok(names[ToLower(e)])
    ELSE mustParseInt(e)

\* Mutant: without the special case, "N/step" is the single value N.
getRangeNoSpecialCase(e, rb) ==
    LET rangeAndStep == Split(e, "/")
        lowAndHigh   == Split(rangeAndStep[1], "-")
        isStar       == lowAndHigh[1] = <<"*">> \/ lowAndHigh[1] = <<"?">>
        start        == IF isStar THEN Ok(rb.min)
                        ELSE parseIntOrName(lowAndHigh[1], rb.names)
        end          == IF isStar THEN Ok(rb.max)
                        ELSE IF ~start.ok THEN start
                        ELSE IF Len(lowAndHigh) = 1 THEN start
                        ELSE IF Len(lowAndHigh) = 2
                             THEN parseIntOrName(lowAndHigh[2], rb.names)
                        ELSE Panic("Too many hyphens")
        extra        == IF isStar THEN starBit ELSE {}
        st           == IF ~end.ok THEN end
                        ELSE IF Len(rangeAndStep) = 1 THEN Ok(1)
                        ELSE IF Len(rangeAndStep) = 2 THEN mustParseInt(rangeAndStep[2])
                        ELSE Panic("Too many slashes")
    IN  IF ~st.ok THEN st
        ELSE IF ULt(start.v, rb.min) THEN Panic("Beginning of range below minimum")
        ELSE IF ULt(rb.max, end.v) THEN Panic("End of range above maximum")
        ELSE IF ULt(end.v, start.v) THEN Panic("Beginning of range beyond end of range")
        ELSE IF st.v = 0 THEN Panic("Step of range should be a positive number")
        ELSE Ok(getBits(start.v, end.v, st.v) \cup extra)

\* getRange(expr, r)
getRange(e, rb) ==
    LET rangeAndStep == Split(e, "/")
        lowAndHigh   == Split(rangeAndStep[1], "-")
        singleDigit  == Len(lowAndHigh) = 1
        isStar       == lowAndHigh[1] = <<"*">> \/ lowAndHigh[1] = <<"?">>
        \* if lowAndHigh[0] == "*" || lowAndHigh[0] == "?" { ... } else { ... }
        start        == IF isStar THEN Ok(rb.min)
                        ELSE parseIntOrName(lowAndHigh[1], rb.names)
        end1         == IF isStar THEN Ok(rb.max)
                        ELSE IF ~start.ok THEN start
                        ELSE IF Len(lowAndHigh) = 1 THEN start
                        ELSE IF Len(lowAndHigh) = 2
                             THEN parseIntOrName(lowAndHigh[2], rb.names)
                        ELSE Panic("Too many hyphens")
        extra        == IF isStar THEN starBit ELSE {}
        \* switch len(rangeAndStep) { ... }
        st           == IF ~end1.ok THEN end1
                        ELSE IF Len(rangeAndStep) = 1 THEN Ok(1)
                        ELSE IF Len(rangeAndStep) = 2 THEN mustParseInt(rangeAndStep[2])
                        ELSE Panic("Too many slashes")
        \* Special handling: "N/step" means "N-max/step".
        end          == IF Len(rangeAndStep) = 2 /\ singleDigit THEN Ok(rb.max) ELSE end1
    IN  IF ~st.ok THEN st
        ELSE IF ULt(start.v, rb.min) THEN Panic("Beginning of range below minimum")
        ELSE IF ULt(rb.max, end.v) THEN Panic("End of range above maximum")
        ELSE IF ULt(end.v, start.v) THEN Panic("Beginning of range beyond end of range")
        ELSE IF st.v = 0 THEN Panic("Step of range should be a positive number")
        ELSE Ok(getBits(start.v, end.v, st.v) \cup extra)

RECURSIVE getFieldRanges(_, _, _, _)
\* for _, expr := range exprs { bits |= getRange(expr, r) }, from the k-th on
getFieldRanges(exprs, rb, k, acc) ==
    IF k > Len(exprs) THEN Ok(acc)
    ELSE LET b == getRange(exprs[k], rb)
         IN  IF ~b.ok THEN b ELSE getFieldRanges(exprs, rb, k + 1, acc \cup b.v)

\* getField(field, r)
getField(field, rb) ==
    IF field = <<>> THEN Panic("index out of range")      \* field[0]
    ELSE LET marked == field[1] = "~" /\ "approx" \in rb.features
             rest   == IF marked THEN SubSeq(field, 2, Len(field)) ELSE field
         IN  getFieldRanges(FieldsFunc(rest, isComma), rb, 1,
                            IF marked THEN approxBit ELSE {})

-----------------------------------------------------------------------------
(* Inputs of getRange and getField *)

\* Most hyphen-separated parts after the first, and most steps, of a range.
MaxHyphens == 2
MaxSlashes == 2
\* Most comma-separated ranges of a field.
MaxRanges == 2
\* Most leading ~ markers of a field.
MaxTildes == 2

\* All sequences over S of length at most n.
SeqsUpTo(S, n) == UNION { [1 .. k -> S] : k \in 0 .. n }

\* The texts a range is put together from: "", numbers inside and outside
\* the bounds in use, a month name, and a text that is neither.
Atoms == { <<>>, <<"0">>, <<"2">>, <<"9">>, <<"4","0">>, <<"J","a","n">>, <<"x">> }
Heads == { <<"*">>, <<"?">> } \cup Atoms
TailAtoms == { <<>>, <<"2">>, <<"9">>, <<"4","0">> }
StepAtoms == { <<"0">>, <<"1">>, <<"2">> }

\* A range text by its parts: head ("-" tail)* ("/" step)*
RangeToken(h, t, st) == [head |-> h, tails |-> t, steps |-> st]

RangeTokens ==
    { RangeToken(h, t, st) : h \in Heads,
                             t \in SeqsUpTo(TailAtoms, MaxHyphens),
                             st \in SeqsUpTo(StepAtoms, MaxSlashes) }

RECURSIVE joinWith(_, _, _)
\* sep ss[k] sep ss[k+1] ... : every part preceded by the separator
joinWith(ss, sep, k) ==
    IF k > Len(ss) THEN <<>> ELSE <<sep>> \o ss[k] \o joinWith(ss, sep, k + 1)

\* The text of a range token
renderRange(t) == t.head \o joinWith(t.tails, "-", 1) \o joinWith(t.steps, "/", 1)

\* The ranges a field is put together from.
FieldRanges ==
    { RangeToken(<<>>, <<>>, <<>>),                         \* ""
      RangeToken(<<"2">>, <<>>, <<>>),                      \* "2"
      RangeToken(<<"0">>, << <<"2">> >>, <<>>),             \* "0-2"
      RangeToken(<<"9">>, <<>>, <<>>),                      \* "9"
      RangeToken(<<"*">>, <<>>, <<>>),                      \* "*"
      RangeToken(<<"*">>, <<>>, << <<"2">> >>),             \* "*/2"
      RangeToken(<<"*">>, << <<"2">> >>, <<>>),             \* "*-2"
      RangeToken(<<"J","a","n">>, <<>>, <<>>),              \* "Jan"
      RangeToken(<<"x">>, <<>>, <<>>) }                     \* "x"

\* A field text by its parts: "~"* range ("," range)*
FieldTokens ==
    { [tildes |-> n, ranges |-> rs] : n \in 0 .. MaxTildes,
                                      rs \in SeqsUpTo(FieldRanges, MaxRanges) }

RECURSIVE tildeRun(_)
tildeRun(n) == IF n = 0 THEN <<>> ELSE <<"~">> \o tildeRun(n - 1)

\* The text of a field token
renderField(f) ==
    LET texts  == [k \in 1 .. Len(f.ranges) |-> renderRange(f.ranges[k])]
        commas == joinWith(texts, ",", 1)
    IN  tildeRun(f.tildes) \o (IF commas = <<>> THEN <<>> ELSE Tail(commas))

\* The descriptors the field parsers are run against.
FieldDescriptors == { testBounds, seconds, dom, months }

InitField ==
    /\ pc \in {"getRange", "getField"}
    /\ tok \in (IF pc = "getRange" THEN RangeTokens ELSE FieldTokens)
    /\ expr = (IF pc = "getRange" THEN renderRange(tok) ELSE renderField(tok))
    /\ r \in FieldDescriptors
    /\ res = Idle
    /\ min = Idle /\ max = Idle /\ step = Idle /\ i = Idle /\ bits = Idle
    /\ options = Idle /\ parser = Idle /\ spec = Idle /\ fields = Idle
    /\ schedule = Idle /\ err = Idle /\ words = Idle

unchangedField ==
    UNCHANGED <<min, max, step, i, bits, tok, expr, r, options, parser, spec,
                fields, schedule, err, words>>

\* actual := getRange(c.expr, bounds{...})
getRangeCall ==
    /\ pc = "getRange"
    /\ res' = getRange(expr, r)
    /\ pc' = "getRange.done"
    /\ unchangedField

\* actual := getField(c.expr, bounds{...})
getFieldCall ==
    /\ pc = "getField"
    /\ res' = getField(expr, r)
    /\ pc' = "getField.done"
    /\ unchangedField

NextField == getRangeCall \/ getFieldCall

SpecField == InitField /\ [][NextField]_vars

-----------------------------------------------------------------------------
(* What the grammar of section 4.3 says of a token *)

\* The number an atom stands for under a descriptor, -1 when it is no atom:
\* the decimal numbers, and "Jan" (any case) where months are named.
AtomValue(a, rb) ==
    CASE a = <<"0">> -> 0
      [] a = <<"1">> -> 1
      [] a = <<"2">> -> 2
      [] a = <<"9">> -> 9
      [] a = <<"4","0">> -> 40
      [] a = <<"J","a","n">> /\ rb = months -> 1
      [] OTHER -> -1

IsStar(t) == t.head \in { <<"*">>, <<"?">> }

\* range := ("*" | "?" | atom ("-" atom)?) ("/" step)?
GrammarRange(t, rb) ==
    /\ \/ IsStar(t) /\ t.tails = <<>>
       \/ /\ AtomValue(t.head, rb) >= 0
          /\ Len(t.tails) <= 1
          /\ \A k \in 1 .. Len(t.tails) : AtomValue(t.tails[k], rb) >= 0
    /\ Len(t.steps) <= 1
    /\ \A k \in 1 .. Len(t.steps) : AtomValue(t.steps[k], nil) >= 0

\* field := "~"? range ("," range)*, the marker only where approx is supported
GrammarField(f, rb) ==
    /\ f.tildes <= 1
    /\ f.tildes = 1 => "approx" \in rb.features
    /\ Len(f.ranges) >= 1
    /\ \A k \in 1 .. Len(f.ranges) : GrammarRange(f.ranges[k], rb)

\* start, end and step of a token as section 4.3 gives them; -1 where the
\* token's shape gives none.
StartOf(t, rb) == IF IsStar(t) THEN rb.min ELSE AtomValue(t.head, rb)

EndOf(t, rb) ==
    IF IsStar(t) THEN rb.max
    ELSE IF Len(t.tails) = 1 THEN AtomValue(t.tails[1], rb)
    ELSE IF Len(t.tails) = 0 /\ Len(t.steps) = 1 THEN rb.max
    ELSE IF Len(t.tails) = 0 THEN AtomValue(t.head, rb)
    ELSE -1

StepOf(t) ==
    IF Len(t.steps) = 0 THEN 1
    ELSE IF Len(t.steps) = 1 THEN AtomValue(t.steps[1], nil)
    ELSE -1

\* A valid range token: in the grammar and within the descriptor.
ValidRange(t, rb) ==
    /\ GrammarRange(t, rb)
    /\ rb.min <= StartOf(t, rb) /\ StartOf(t, rb) <= EndOf(t, rb)
    /\ EndOf(t, rb) <= rb.max
    /\ StepOf(t) >= 1

\* One of the six violations of section 4.3.
Violates(t, rb) ==
    \/ StartOf(t, rb) >= 0 /\ StartOf(t, rb) < rb.min
    \/ EndOf(t, rb) >= 0 /\ EndOf(t, rb) > rb.max
    \/ StartOf(t, rb) >= 0 /\ EndOf(t, rb) >= 0 /\ StartOf(t, rb) > EndOf(t, rb)
    \/ StepOf(t) = 0
    \/ Len(t.tails) > 1
    \/ Len(t.steps) > 1

\* C3 (as stated): a range token with start < min, end > max, start > end,
\* step = 0, more than one hyphen or more than one slash makes getRange
\* fail, whatever the token begins with.
C3_EveryViolationFails ==
    pc = "getRange.done" /\ Violates(tok, r) => ~res.ok

\* C7 (as stated): a field text outside the field grammar makes getField
\* fail (Parse turns that failure into its error); none is compiled.
C7_UngrammaticalFails ==
    pc = "getField.done" /\ ~GrammarField(tok, r) => ~res.ok

\* C9: for a valid range token getRange returns the value bits start,
\* start+step, ... up to end, with (start, end) = (min, max) for * and ?,
\* (N, N) for N, (N, M) for N-M, (N, max) for N/step, and step 1 without a
\* slash; the wildcard bit is set exactly for * and ?.
C9_RangeBits ==
    pc = "getRange.done" /\ ValidRange(tok, r) =>
        /\ res.ok
        /\ res.v \ starBit = Progression(StartOf(tok, r), EndOf(tok, r), StepOf(tok))
        /\ starBit \subseteq res.v <=> IsStar(tok)

\* C9 witness: "2/2" on the field 0..7 has given the bits 2, 4, 6.
C9_Witness ==
    /\ pc = "getRange.done" /\ r = testBounds
    /\ expr = <<"2", "/", "2">>
    /\ ValidRange(tok, r)
    /\ res = Ok({2, 4, 6})

-----------------------------------------------------------------------------
(* The multi-word bit engine: getMultiBits, mhas, mall *)

\* Mutant: a word holds as many values as it has bits, 64.
WordValues64 == Cardinality(WordBits)

\* Values per word: the words of TestMultiBits hold 60 values each
\* (0xfffffffffffffff is 60 ones; 0..60 over 0..119 is that word and 0x1).
WordValues == 60

\* Number of words of a descriptor
wordCount(rb) == (rb.max - rb.min + WordValues) \div WordValues

\* The smallest value lo, lo + st, ... that is at least base
firstFrom(lo, st, base) ==
    IF base <= lo THEN lo ELSE lo + ((base - lo + st - 1) \div st) * st

\* Word k (from 0) of the range lo..hi/st: the part of the range inside the
\* word, in the word's own coordinates.
multiWord(rb, lo, hi, st, k) ==
    LET base  == rb.min + k * WordValues
        last  == IF rb.max < base + WordValues - 1 THEN rb.max ELSE base + WordValues - 1
        first == firstFrom(lo, st, base)
        upto  == IF hi < last THEN hi ELSE last
    IN  IF first > upto THEN {} ELSE getBits(first - base, upto - base, st)

\* getMultiBits(r, min, max, step)
getMultiBits(rb, lo, hi, st) ==
    [k \in 1 .. wordCount(rb) |-> multiWord(rb, lo, hi, st, k - 1)]

\* mhas(r, bits, n)
mhas(rb, ws, n) ==
    ((n - rb.min) % WordValues) \in ws[((n - rb.min) \div WordValues) + 1]

\* mall(r): every value of the descriptor, and the star bit on the first word
mall(rb) ==
    LET ws == getMultiBits(rb, rb.min, rb.max, 1)
    IN  [ws EXCEPT ![1] = @ \cup starBit]

\* The wide field
years == [min |-> 1970, max |-> 2099, names |-> nil, features |-> {}]

-----------------------------------------------------------------------------
(* NewParser, Parser.Parse, expandFields, parseDescriptor *)

\* var places
places == <<"Second", "Minute", "Hour", "Dom", "Month", "Dow", "Wy">>

\* var defaults
defaults == << <<"0">>, <<"0">>, <<"0">>, <<"*">>, <<"*">>, <<"*">>, <<"*">> >>

\* NewParser(options)
NewParser(opts) ==
    LET withDow == IF "DowOptional" \in opts THEN opts \cup {"Dow"} ELSE opts
        withWy  == IF "WyOptional" \in opts THEN withDow \cup {"Wy"} ELSE withDow
    IN  [options   |-> withWy,
         optionals |-> (IF "DowOptional" \in opts THEN 1 ELSE 0)
                        + (IF "WyOptional" \in opts THEN 1 ELSE 0)]

RECURSIVE expandFieldsLoop(_, _, _, _, _)
\* for i, place := range places { ... }, from place k with n fields consumed
expandFieldsLoop(fs, opts, k, n, expFields) ==
    IF k > Len(places) THEN Ok(expFields)
    ELSE IF places[k] \in opts
    THEN IF n + 1 > Len(fs) THEN Panic("index out of range")      \* fields[n]
         ELSE IF n + 1 = Len(fs) THEN Ok([expFields EXCEPT ![k] = fs[n + 1]])
         ELSE expandFieldsLoop(fs, opts, k + 1, n + 1, [expFields EXCEPT ![k] = fs[n + 1]])
    ELSE IF n = Len(fs) THEN Ok(expFields)
         ELSE expandFieldsLoop(fs, opts, k + 1, n, expFields)

\* expandFields(fields, options)
expandFields(fs, opts) == expandFieldsLoop(fs, opts, 1, 0, defaults)

\* all(r)
all(rb) == getBits(rb.min, rb.max, 1) \cup starBit

\* &SpecSchedule{Second: ..., ..., Wy: ...}: the wide field is not named
\* and keeps its zero value, a nil slice.
SpecSchedule(second, minute, hour, domBits, month, dowBits, wy) ==
    [type |-> "SpecSchedule", Second |-> second, Minute |-> minute, Hour |-> hour,
     Dom |-> domBits, Month |-> month, Dow |-> dowBits, Wy |-> wy, Year |-> nil]

\* A time.Duration, counted in seconds.
\* time.ParseDuration(s), for the duration texts the inputs use.
ParseDuration(s) ==
    CASE s = <<"5", "m">> -> Ok(300)
      [] s = <<"1", "h", "3", "0", "m">> -> Ok(5400)
      [] s = <<"0", "s">> -> Ok(0)
      [] s = <<"-", "5", "m">> -> Ok(0 - 300)
      [] OTHER -> [ok |-> FALSE, err |-> "time: invalid duration"]

\* Every(duration): the fixed-interval schedule of the duration
Every(duration) == [type |-> "ConstantDelaySchedule", Delay |-> duration]

\* const every = "@every "
every == <<"@", "e", "v", "e", "r", "y", " ">>

\* The schedule of a fixed shortcut, or nil when spec is none.
descriptorSchedule(s) ==
    LET one(rb) == Shl({0}, rb.min)          \* 1 << r.min
        at(rest) == s = <<"@">> \o rest
    IN  IF at(<<"y","e","a","r","l","y">>) \/ at(<<"a","n","n","u","a","l","l","y">>)
        THEN SpecSchedule(one(seconds), one(minutes), one(hours), one(dom),
                          one(months), all(dow), all(weeksOfYear))
        ELSE IF at(<<"m","o","n","t","h","l","y">>)
        THEN SpecSchedule(one(seconds), one(minutes), one(hours), one(dom),
                          all(months), all(dow), all(weeksOfYear))
        ELSE IF at(<<"w","e","e","k","l","y">>)
        THEN SpecSchedule(one(seconds), one(minutes), one(hours), all(dom),
                          all(months), one(dow), all(weeksOfYear))
        ELSE IF at(<<"d","a","i","l","y">>) \/ at(<<"m","i","d","n","i","g","h","t">>)
        THEN SpecSchedule(one(seconds), one(minutes), one(hours), all(dom),
                          all(months), all(dow), all(weeksOfYear))
        ELSE IF at(<<"h","o","u","r","l","y">>)
        THEN SpecSchedule(one(seconds), one(minutes), all(hours), all(dom),
                          all(months), all(dow), all(weeksOfYear))
        ELSE nil

\* After the switch: the "@every " prefix, or no descriptor at all.
parseEvery(s) ==
    IF HasPrefix(s, every)
    THEN LET duration == ParseDuration(SubSeq(s, Len(every) + 1, Len(s)))
         IN  IF ~duration.ok THEN Panic("Failed to parse duration")
             ELSE Ok(Every(duration.v))
    ELSE Panic("Unrecognized descriptor")

\* Mutant: the error of time.ParseDuration is dropped.
parseDescriptorIgnoresErr(s) ==
    IF descriptorSchedule(s) # nil THEN Ok(descriptorSchedule(s))
    ELSE IF HasPrefix(s, every)
    THEN LET duration == ParseDuration(SubSeq(s, Len(every) + 1, Len(s)))
         IN  Ok(Every(IF duration.ok THEN duration.v ELSE 0))
    ELSE Panic("Unrecognized descriptor")

\* parseDescriptor(spec)
parseDescriptor(s) ==
    IF descriptorSchedule(s) # nil THEN Ok(descriptorSchedule(s)) ELSE parseEvery(s)

\* Mutant: the ApproxDom option is ignored.
applyApproxDomSkipped(opts, sched) == sched

\* if p.options&ApproxDom > 0 { schedule.Dom |= approxBit }
applyApproxDom(opts, sched) ==
    IF "ApproxDom" \in opts THEN [sched EXCEPT !.Dom = @ \cup approxBit] ELSE sched

\* The number of enabled places, max of Parse
maxFieldsOf(p) == Cardinality({ k \in 1 .. Len(places) : places[k] \in p.options })

\* The descriptor of each place
placeBounds == <<seconds, minutes, hours, dom, months, dow, weeksOfYear>>

RECURSIVE compileFieldsFrom(_, _, _)
\* One field of the literal evaluated to b: a panic ends the evaluation.
compileField(fs, k, got, b) ==
    IF ~b.ok THEN b ELSE compileFieldsFrom(fs, k + 1, Append(got, b.v))

\* getField(fields[k-1], ...) for the places from k on, in the order of the
\* literal.
compileFieldsFrom(fs, k, got) ==
    IF k > Len(places)
    THEN Ok(SpecSchedule(got[1], got[2], got[3], got[4], got[5], got[6], got[7]))
    ELSE compileField(fs, k, got, getField(fs[k], placeBounds[k]))

\* schedule := &SpecSchedule{Second: getField(fields[0], seconds), ...}
compileFields(fs) == compileFieldsFrom(fs, 1, <<>>)

\* The frame of Parse when it returns: its results, and its local fields
\* (nil until expandFields has returned).
Returned(sched, e, fs) == [schedule |-> sched, err |-> e, fields |-> fs]

\* Parse after the SpecSchedule literal, evaluated to compiled.
parseCompiled(p, expanded, compiled) ==
    IF ~compiled.ok THEN Returned(nil, compiled.err, expanded)
    ELSE Returned(applyApproxDom(p.options, compiled.v), "nil", expanded)

\* Parse after expandFields, which returned expanded.
parseExpanded(p, expanded) ==
    IF ~expanded.ok THEN Returned(nil, expanded.err, nil)
    ELSE parseCompiled(p, expanded.v, compileFields(expanded.v))

\* Parse from the field count on.
parseFields(p, fs, hi, lo) ==
    IF Len(fs) < lo \/ Len(fs) > hi
    THEN Returned(nil, IF lo = hi THEN "Expected n fields"
                       ELSE "Expected n to m fields", nil)
    ELSE parseExpanded(p, expandFields(fs, p.options))

\* Parse after parseDescriptor, which returned d.
parseDescribed(d) ==
    IF d.ok THEN Returned(d.v, "nil", nil) ELSE Returned(nil, d.err, nil)

\* (p Parser) Parse(spec): a panic is recovered into err, the schedule nil.
Parse(p, s) ==
    IF s = <<>> THEN Returned(nil, "runtime error: index out of range", nil)   \* spec[0]
    ELSE IF s[1] = "@" /\ "Descriptor" \in p.options
    THEN parseDescribed(parseDescriptor(s))
    ELSE parseFields(p, Fields(s), maxFieldsOf(p), maxFieldsOf(p) - p.optionals)

-----------------------------------------------------------------------------
(* Inputs of NewParser and Parse *)

\* Most tokens of a schedule text (one more than the seven fields).
MaxTokens == 8

\* The parser configurations: no, one or all of the five leading fields,
\* with every combination of the other options.
Configs ==
    { base \cup extra :
        base \in { {}, {"Dom"}, {"Second", "Minute", "Hour", "Dom", "Month"} },
        extra \in SUBSET {"Dow", "DowOptional", "Wy", "WyOptional",
                          "Descriptor", "ApproxDom"} }

\* A schedule text by its parts: lead, then the tokens separated by sep.
Input(tokens, lead, sep) == [tokens |-> tokens, lead |-> lead, sep |-> sep]

Plain(tokens) == Input(tokens, <<>>, <<" ">>)

star == <<"*">>
two == <<"2">>
atEvery == <<"@", "e", "v", "e", "r", "y">>
atHourly == <<"@", "h", "o", "u", "r", "l", "y">>

\* Every text of at most MaxTokens tokens "*" and "2", and texts with other
\* white space, with other fields, and beginning with @.
Inputs ==
    { Plain(ts) : ts \in SeqsUpTo({star, two}, MaxTokens) }
    \cup { Input(<<>>, <<" ">>, <<" ">>),
           Input(<<star, two, star, star, star, star>>, <<" ", "\t">>, <<" ", " ">>),
           Plain(<<star, star, star, <<"~", "2">>, star, star>>),
           Plain(<<star, star, star, <<"~", "2">>, star>>),
           Plain(<<star, star, star, <<"x">>, star, star>>),
           Plain(<< <<"~", "2">> >>),
           Plain(<< <<"~">> >>),
           Plain(<< <<"@", "y", "e", "a", "r", "l", "y">> >>),
           Plain(<< <<"@", "a", "n", "n", "u", "a", "l", "l", "y">> >>),
           Plain(<< <<"@", "m", "o", "n", "t", "h", "l", "y">> >>),
           Plain(<< <<"@", "w", "e", "e", "k", "l", "y">> >>),
           Plain(<< <<"@", "d", "a", "i", "l", "y">> >>),
           Plain(<< <<"@", "m", "i", "d", "n", "i", "g", "h", "t">> >>),
           Plain(<< atHourly >>),
           Plain(<< atHourly, <<"x">> >>),
           Plain(<< <<"@">> >>),
           Plain(<< <<"@", "f", "o", "o">> >>),
           Plain(<< atEvery >>),
           Plain(<< atEvery, <<"5", "m">> >>),
           Plain(<< atEvery, <<"1", "h", "3", "0", "m">> >>),
           Plain(<< atEvery, <<"0", "s">> >>),
           Plain(<< atEvery, <<"-", "5", "m">> >>),
           Plain(<< atEvery, <<"x">> >>),
           Input(<< atEvery, <<"5", "m">> >>, <<>>, <<" ", " ">>) }

RECURSIVE joinTokens(_, _, _)
joinTokens(ts, sep, k) ==
    IF k > Len(ts) THEN <<>>
    ELSE (IF k = 1 THEN <<>> ELSE sep) \o ts[k] \o joinTokens(ts, sep, k + 1)

\* The text of an input
renderInput(in) == in.lead \o joinTokens(in.tokens, in.sep, 1)

InitParse ==
    /\ pc = "NewParser"
    /\ options \in Configs
    /\ parser = Idle /\ tok = Idle /\ spec = Idle
    /\ fields = Idle /\ schedule = Idle /\ err = Idle
    /\ min = Idle /\ max = Idle /\ step = Idle /\ i = Idle /\ bits = Idle
    /\ expr = Idle /\ r = Idle /\ res = Idle /\ words = Idle

unchangedParse ==
    UNCHANGED <<min, max, step, i, bits, expr, r, res, options, words>>

\* p := NewParser(options)
NewParserCall ==
    /\ pc = "NewParser"
    /\ parser' = NewParser(options)
    /\ pc' = "Parse"
    /\ UNCHANGED <<tok, spec, fields, schedule, err>>
    /\ unchangedParse

\* schedule, err := p.Parse(spec)
ParseCall ==
    /\ pc = "Parse"
    /\ \E in \in Inputs :
         /\ tok' = in
         /\ spec' = renderInput(in)
         /\ \E ret \in {Parse(parser, spec')} :
              /\ schedule' = ret.schedule
              /\ err' = ret.err
              /\ fields' = ret.fields
    /\ pc' = "Parse.done"
    /\ UNCHANGED parser
    /\ unchangedParse

NextParse == NewParserCall \/ ParseCall

SpecParse == InitParse /\ [][NextParse]_vars

-----------------------------------------------------------------------------
(* What section 4.4 says of a configuration and a text *)

\* The enabled fields of a configuration, in the fixed order.
Enabled(opts) ==
    SelectSeq(places, LAMBDA f : \/ f \in opts
                                 \/ f = "Dow" /\ "DowOptional" \in opts
                                 \/ f = "Wy" /\ "WyOptional" \in opts)

\* The optional fields of a configuration.
Optional(opts) ==
    { f \in {"Dow", "Wy"} : (f = "Dow" /\ "DowOptional" \in opts)
                            \/ (f = "Wy" /\ "WyOptional" \in opts) }

maxFields(opts) == Len(Enabled(opts))

minFields(opts) == maxFields(opts) - Cardinality(Optional(opts))

\* The text goes to the descriptor table.
IsDescriptorText(opts, in) ==
    /\ "Descriptor" \in opts
    /\ in.lead = <<>> /\ in.tokens # <<>> /\ in.tokens[1][1] = "@"

\* The error is the field-count error.
FieldCountError(e) == e \in {"Expected n fields", "Expected n to m fields"}

\* The place (1..7) of a field
placeOf(f) == CHOOSE k \in 1 .. Len(places) : places[k] = f

\* C1 (as stated): a text that is no descriptor and whose token count is
\* outside [minFields, maxFields] gets the field-count error and no
\* schedule, the empty text included; a text whose count is inside is not
\* rejected for its count.
C1_FieldCount ==
    pc = "Parse.done" /\ ~IsDescriptorText(options, tok) =>
        LET count == Len(tok.tokens)
        IN  IF count < minFields(options) \/ count > maxFields(options)
            THEN FieldCountError(err) /\ schedule = nil
            ELSE ~FieldCountError(err)

\* C2 (as stated): every field-set schedule Parse returns carries all
\* years, mall(years), in its wide field.
C2_YearIsAll ==
    pc = "Parse.done" /\ schedule # nil /\ schedule.type = "SpecSchedule" =>
        schedule.Year = mall(years)

\* The fixed shortcuts.
IsShortcut(in) == in.lead = <<>> /\ Len(in.tokens) = 1 /\ descriptorSchedule(in.tokens[1]) # nil

\* "@every " followed by a text time.ParseDuration accepts
IsEvery(in) ==
    /\ in.lead = <<>> /\ in.sep = <<" ">> /\ Len(in.tokens) = 2
    /\ in.tokens[1] = atEvery
    /\ ParseDuration(in.tokens[2]).ok

DurationOf(in) == ParseDuration(in.tokens[2]).v

\* C4 (as stated): with descriptors enabled, a text beginning with @ that
\* is no shortcut and no "@every " with a parseable duration above zero is
\* an error, and "@every d" with d above zero is the fixed interval d.
C4_Original ==
    pc = "Parse.done" /\ IsDescriptorText(options, tok) =>
        /\ ~IsShortcut(tok) /\ ~(IsEvery(tok) /\ DurationOf(tok) > 0) => err # "nil"
        /\ IsEvery(tok) /\ DurationOf(tok) > 0 =>
             err = "nil" /\ schedule = [type |-> "ConstantDelaySchedule", Delay |-> DurationOf(tok)]

\* C4 (amended): with descriptors enabled, a text beginning with @ that is
\* no shortcut and no "@every " with a parseable duration is an error, and
\* "@every d" with any parseable d, zero and negative included, returns
\* without error the fixed-interval schedule Every makes of d.
C4_Amended ==
    pc = "Parse.done" /\ IsDescriptorText(options, tok) =>
        /\ ~IsShortcut(tok) /\ ~IsEvery(tok) => err # "nil" /\ schedule = nil
        /\ IsEvery(tok) =>
             err = "nil" /\ schedule = [type |-> "ConstantDelaySchedule", Delay |-> DurationOf(tok)]

\* C4 witness: "@every 5m" has given the fixed interval of 300 seconds.
C4_Witness ==
    /\ pc = "Parse.done" /\ "Descriptor" \in options
    /\ spec = atEvery \o <<" ", "5", "m">>
    /\ err = "nil" /\ schedule.type = "ConstantDelaySchedule" /\ schedule.Delay = 300

\* C5 (as stated): with ApproxDom every field-set schedule Parse returns
\* has the approx bit in its day-of-month bits.
C5_Original ==
    pc = "Parse.done" /\ "ApproxDom" \in options
      /\ schedule # nil /\ schedule.type = "SpecSchedule" =>
        approxBit \subseteq schedule.Dom

\* C5 (amended): with ApproxDom every field-set schedule Parse compiles
\* from fields (not the schedule of a descriptor shortcut) has the approx
\* bit in its day-of-month bits, with or without ~ in the text.
C5_Amended ==
    pc = "Parse.done" /\ "ApproxDom" \in options /\ ~IsDescriptorText(options, tok)
      /\ schedule # nil /\ schedule.type = "SpecSchedule" =>
        approxBit \subseteq schedule.Dom

\* C5 witness: a text without ~ compiled under ApproxDom carries the bit.
C5_Witness ==
    /\ pc = "Parse.done" /\ "ApproxDom" \in options
    /\ spec = <<"*", " ", "*", " ", "*", " ", "2", " ", "*">>
    /\ schedule # nil /\ schedule.Dom = {2} \cup approxBit

\* C6 (as stated): for a token list of accepted length the k-th token is
\* in the slot of the k-th enabled field, every other slot holds its
\* default, and the enabled fields left at their default are optional.
C6_Layout ==
    pc = "Parse.done" /\ fields # nil =>
        LET en    == Enabled(options)
            count == Len(Fields(spec))
        IN  /\ \A k \in 1 .. count : fields[placeOf(en[k])] = tok.tokens[k]
            /\ \A q \in 1 .. Len(places) :
                 (\A k \in 1 .. count : placeOf(en[k]) # q) => fields[q] = defaults[q]
            /\ \A k \in (count + 1) .. Len(en) : en[k] \in Optional(options)

-----------------------------------------------------------------------------
(* Inputs of getMultiBits: the descriptors and rows of TestMultiBits *)

\* Largest step handed to getMultiBits.
MaxMultiStep == 3

b99 == [min |-> 0, max |-> 99, names |-> nil, features |-> {}]
b100 == [min |-> 100, max |-> 199, names |-> nil, features |-> {}]
b2 == [min |-> 0, max |-> 119, names |-> nil, features |-> {}]
b3 == [min |-> 0, max |-> 179, names |-> nil, features |-> {}]

WideDescriptors == { b99, b100, b2, b3 }

\* The values a range starts or ends at: those at the ends of every word
\* and around a third and two thirds of it, and the descriptor's last.
Sampled(rb) ==
    { v \in rb.min .. rb.max :
        \/ (v - rb.min) % WordValues \in {0, 1, 2, 19, 20, 21, 39, 40, 41,
                                          WordValues - 2, WordValues - 1}
        \/ v = rb.max }

\* A row of the table: the call and the words expected of it.
Row(rb, lo, hi, st, expected) ==
    [r |-> rb, min |-> lo, max |-> hi, step |-> st, expected |-> expected]

\* 0x555555555555555 and 0x5555555555: every second bit below 60 and 40
evenBelow(n) == { b \in 0 .. n - 1 : b % 2 = 0 }

\* The rows of TestMultiBits, each word as its set of bits
\* (0xfffffffffffffff is 0..59, 0xffffffffff is 0..39,
\*  0xfffff0000000000 is 40..59, 0x1fffff is 0..20).
TestMultiBitsRows ==
    { Row(b2, 0, 59, 1, << 0 .. 59, {} >>),
      Row(b2, 0, 60, 1, << 0 .. 59, {0} >>),
      Row(b2, 0, 61, 1, << 0 .. 59, {0, 1} >>),
      Row(b2, 0, 62, 1, << 0 .. 59, {0, 1, 2} >>),
      Row(b2, 0, 99, 1, << 0 .. 59, 0 .. 39 >>),
      Row(b2, 0, 99, 2, << evenBelow(60), evenBelow(40) >>),
      Row(b2, 0, 119, 1, << 0 .. 59, 0 .. 59 >>),
      Row(b2, 0, 119, 2, << evenBelow(60), evenBelow(60) >>),
      Row(b2, 60, 60, 1, << {}, {0} >>),
      Row(b2, 60, 61, 1, << {}, {0, 1} >>),
      Row(b2, 60, 62, 1, << {}, {0, 1, 2} >>),
      Row(b2, 60, 99, 1, << {}, 0 .. 39 >>),
      Row(b2, 60, 99, 2, << {}, evenBelow(40) >>),
      Row(b2, 60, 119, 1, << {}, 0 .. 59 >>),
      Row(b2, 60, 119, 2, << {}, evenBelow(60) >>),
      Row(b3, 60, 120, 1, << {}, 0 .. 59, {0} >>),
      Row(b3, 120, 120, 1, << {}, {}, {0} >>),
      Row(b3, 0, 120, 1, << 0 .. 59, 0 .. 59, {0} >>),
      Row(b3, 40, 140, 1, << 40 .. 59, 0 .. 59, 0 .. 20 >>) }

InitMulti ==
    /\ pc = "getMultiBits"
    /\ r \in WideDescriptors
    /\ min \in Sampled(r) /\ max \in Sampled(r) /\ min <= max
    /\ step \in 1 .. MaxMultiStep
    /\ words = Idle
    /\ i = Idle /\ bits = Idle /\ tok = Idle /\ expr = Idle /\ res = Idle
    /\ options = Idle /\ parser = Idle /\ spec = Idle /\ fields = Idle
    /\ schedule = Idle /\ err = Idle

\* actual := getMultiBits(c.r, c.min, c.max, c.step)
getMultiBitsCall ==
    /\ pc = "getMultiBits"
    /\ words' = getMultiBits(r, min, max, step)
    /\ pc' = "getMultiBits.done"
    /\ UNCHANGED <<min, max, step, i, bits, tok, expr, r, res, options, parser,
                   spec, fields, schedule, err>>

NextMulti == getMultiBitsCall

SpecMulti == InitMulti /\ [][NextMulti]_vars

\* has as the claim computes it: bit (n - min) mod 64 of word (n - min) div 64
has64(rb, ws, n) == ((n - rb.min) % 64) \in ws[((n - rb.min) \div 64) + 1]

\* The words of the call are those of its row of the test table, if any.
AsInTestTable ==
    \A row \in TestMultiBitsRows :
        row.r = r /\ row.min = min /\ row.max = max /\ row.step = step
            => words = row.expected

\* C10 (as stated): n is a member, read as bit (n - dmin) mod 64 of word
\* (n - dmin) div 64 of getMultiBits(r, min, max, step), exactly when n is
\* min, min+step, ... and at most max; the words are those of the test table.
C10_Original ==
    pc = "getMultiBits.done" =>
        /\ \A n \in r.min .. r.max :
             has64(r, words, n) <=> n \in Progression(min, max, step)
        /\ AsInTestTable

\* C10 (amended): the same with 60 values per word: n is a member, read by
\* mhas as bit (n - dmin) mod 60 of word (n - dmin) div 60, exactly when n
\* is min, min+step, ... and at most max; the words are those of the test
\* table.
C10_Amended ==
    pc = "getMultiBits.done" =>
        /\ \A n \in r.min .. r.max :
             mhas(r, words, n) <=> n \in Progression(min, max, step)
        /\ AsInTestTable

\* C10 witness: 40..140 over 0..179 has given the three words of the table.
C10_Witness ==
    /\ pc = "getMultiBits.done" /\ r = b3
    /\ min = 40 /\ max = 140 /\ step = 1
    /\ words = << 40 .. 59, 0 .. 59, 0 .. 20 >>

=============================================================================
